---- MODULE Spec2Model ----
(***************************************************************************)
(* Delta flight tracker: the persistence store (flights, price history,    *)
(* ecredit requests, notifications), the price-check pass of route.ts, the *)
(* request manager of ecredit-requests.ts, the airline submission protocol *)
(* of airline-communicator.ts, the price history of flights.ts and the     *)
(* reconciliation pass of worker.ts.                                       *)
(*                                                                         *)
(* Optional values (number | null, a nullable column, an undefined field)  *)
(* are sequences of length at most one: None is <<>>, Some(x) is <<x>>.    *)
(***************************************************************************)
EXTENDS Integers, Sequences, FiniteSets, TLC

VARIABLES
    flights,          \* table flights: row i has id i
    priceHistory,     \* table price_history, in insertion order
    ecreditRequests,  \* table ecredit_requests: row i has id i
    notifications,    \* table notifications, in insertion order
    clock,            \* the store's CURRENT_TIMESTAMP / Date.now(), in seconds
    call,             \* the last direct call of createEcreditRequest and its return value
    updates,          \* number of direct calls of updateEcreditRequestStatus so far
    pass,             \* the running price-check passes (GET of route.ts), one record each
    passRuns,         \* number of price-check passes started so far
    creating,         \* a createFlight call between its two inserts (None when there is none)
    edits,            \* number of updateFlight / deactivateFlight calls so far
    submission,       \* the last call of AirlineCommunicator.requestEcredit and its outcome
    flightCall,       \* the last call of createFlight: its position and its return value
    recon,            \* the reconciliation pass (processEcreditRequests of worker.ts)
    reads,            \* the last read of the price history and what it returned
    fare              \* the last call of FlightAPI.getFlightPrice: position, sources, return

vars == <<flights, priceHistory, ecreditRequests, notifications, clock, call,
          updates, pass, passRuns, creating, edits, submission, flightCall, recon, reads,
          fare>>

storeVars == <<flights, priceHistory, ecreditRequests, notifications, clock>>

----------------------------------------------------------------------------
(* Bounds of the model *)

MaxFlights == 2        \* rows of flights
MaxRequests == 2       \* rows of ecredit_requests
MaxPassRuns == 2       \* price-check passes started
NumPasses == 1         \* price-check passes that may overlap
MaxEdits == 1          \* updateFlight / deactivateFlight calls
MaxUpdates == 1        \* direct calls of updateEcreditRequestStatus
MaxReconRuns == 2      \* reconciliation passes started
FrameFlights == 1      \* rows of flights where one pass is followed step by step
Overlap == 2           \* price-check passes running at the same time
MaxHistory == 3        \* rows of price_history where the ledger is read back
MaxClock == 2          \* seconds the store's clock advances

None == <<>>
Some(x) == <<x>>

\* JavaScript truthiness of an optional number: null, undefined and 0 are falsy
Truthy(opt) == opt # None /\ opt[1] # 0

Users == {1}
OriginalPrices == {500}
\* prices the fare lookup may report: Scenario A, B, E of the specification and the edges
FetchedPrices == {0, 420, 500, 510}
\* arguments of direct calls of createEcreditRequest
CallPrices == {420, 500}
\* the original price updateFlight sets
EditedPrices == {600}
\* prices appended to the price history directly
LedgerPrices == {0, 420, 430}

----------------------------------------------------------------------------
(* src/ecredit-requests.ts *)

RequestStatus == {"pending", "in_progress", "completed", "failed"}

Unresolved == {"pending", "in_progress"}

\* the row the insert of createEcreditRequest stores; the columns it does not
\* name take the defaults of the schema (request_date CURRENT_TIMESTAMP, else NULL)
NewRequestRow(id, flightId, originalPrice, newPrice, priceDifference, now) ==
    [id |-> id, flightId |-> flightId, originalPrice |-> originalPrice,
     newPrice |-> newPrice, priceDifference |-> priceDifference,
     status |-> "pending", requestDate |-> now, completionDate |-> None,
     ecreditAmount |-> None, ecreditCode |-> None,
     ecreditExpirationDate |-> None, notes |-> None]

\* createEcreditRequest(requestData), as a function of the table: the pair of the
\* table afterwards and the returned row (None for null). dbOk is whether the
\* insert succeeds; a failing insert throws and the catch returns null.
createEcreditRequestMutNoGuard(reqs, flightId, originalPrice, newPrice, now, dbOk) ==
    LET priceDifference == originalPrice - newPrice
        row == NewRequestRow(Len(reqs) + 1, flightId, originalPrice, newPrice,
                             priceDifference, now)
    IN  IF ~dbOk THEN [reqs |-> reqs, ret |-> None]
        ELSE [reqs |-> Append(reqs, row), ret |-> Some(row)]

createEcreditRequest(reqs, flightId, originalPrice, newPrice, now, dbOk) ==
    LET priceDifference == originalPrice - newPrice
        row == NewRequestRow(Len(reqs) + 1, flightId, originalPrice, newPrice,
                             priceDifference, now)
    IN  IF priceDifference <= 0 THEN [reqs |-> reqs, ret |-> None]
        ELSE IF ~dbOk THEN [reqs |-> reqs, ret |-> None]
        ELSE [reqs |-> Append(reqs, row), ret |-> Some(row)]

\* the additionalData argument of updateEcreditRequestStatus: undefined (None) or an
\* object whose five fields are each optional
NoFields == [completionDate |-> None, ecreditAmount |-> None, ecreditCode |-> None,
             ecreditExpirationDate |-> None, notes |-> None]

\* dates are numbers (seconds of the store's clock); EmptyDate stands for the
\* empty string, the one string that is falsy
EmptyDate == -1

\* the same update when completionDate is taken from additionalData only
ApplyUpdateMutSuppliedOnly(row, status, additionalData, now) ==
    LET data == IF additionalData = None THEN NoFields ELSE additionalData[1]
        r1 == [row EXCEPT !.status = status]
        r2 == IF status = "completed"
              THEN [r1 EXCEPT !.completionDate = data.completionDate]
              ELSE r1
        r3 == IF data.ecreditAmount # None
              THEN [r2 EXCEPT !.ecreditAmount = data.ecreditAmount] ELSE r2
        r4 == IF data.ecreditCode # None
              THEN [r3 EXCEPT !.ecreditCode = data.ecreditCode] ELSE r3
        r5 == IF data.ecreditExpirationDate # None
              THEN [r4 EXCEPT !.ecreditExpirationDate = data.ecreditExpirationDate]
              ELSE r4
    IN  IF data.notes # None THEN [r5 EXCEPT !.notes = data.notes] ELSE r5

\* updateData of updateEcreditRequestStatus applied to one row: only the keys
\* present in updateData are written; completionDate is
\* `additionalData?.completionDate || new Date().toISOString()`
ApplyUpdate(row, status, additionalData, now) ==
    LET data == IF additionalData = None THEN NoFields ELSE additionalData[1]
        r1 == [row EXCEPT !.status = status]
        r2 == IF status = "completed"
              THEN [r1 EXCEPT !.completionDate =
                        IF data.completionDate # None /\ data.completionDate[1] # EmptyDate
                        THEN data.completionDate
                        ELSE Some(now)]
              ELSE r1
        r3 == IF data.ecreditAmount # None
              THEN [r2 EXCEPT !.ecreditAmount = data.ecreditAmount] ELSE r2
        r4 == IF data.ecreditCode # None
              THEN [r3 EXCEPT !.ecreditCode = data.ecreditCode] ELSE r3
        r5 == IF data.ecreditExpirationDate # None
              THEN [r4 EXCEPT !.ecreditExpirationDate = data.ecreditExpirationDate]
              ELSE r4
    IN  IF data.notes # None THEN [r5 EXCEPT !.notes = data.notes] ELSE r5

\* a request manager that enforces the lifecycle of the specification (section 4.4)
LegalTransition(from, to) ==
    \/ from = "pending" /\ to \in {"in_progress", "failed"}
    \/ from = "in_progress" /\ to \in {"completed", "failed"}

\* updateEcreditRequestStatus(id, status, additionalData): the table afterwards and
\* the returned row (None when no row has the id or the update throws)
updateEcreditRequestStatus(reqs, id, status, additionalData, now, dbOk) ==
    IF ~dbOk \/ id \notin 1..Len(reqs) THEN [reqs |-> reqs, ret |-> None]
    ELSE LET row == ApplyUpdate(reqs[id], status, additionalData, now)
         IN  [reqs |-> [reqs EXCEPT ![id] = row], ret |-> Some(row)]

\* getPendingEcreditRequests(): the rows whose status is pending, by request date
\* (rows are inserted with non-decreasing request dates, so in id order)
getPendingEcreditRequestsMutNotCompleted(reqs) ==
    SelectSeq(reqs, LAMBDA r : r.status # "completed")

getPendingEcreditRequests(reqs) ==
    SelectSeq(reqs, LAMBDA r : r.status = "pending")

\* the requests of a flight that are pending or in_progress
UnresolvedOf(reqs, flightId) ==
    {i \in 1..Len(reqs) : reqs[i].flightId = flightId /\ reqs[i].status \in Unresolved}

----------------------------------------------------------------------------
(* src/flights.ts *)

\* the row the insert of createFlight stores (active defaults to true)
NewFlightRow(id, userId, originalPrice) ==
    [id |-> id, userId |-> userId, originalPrice |-> originalPrice, active |-> TRUE]

\* the row addPriceToHistory / createFlight / updateFlight insert into price_history
NewPriceRow(flightId, price, now) ==
    [flightId |-> flightId, price |-> price, timestamp |-> now]

\* the same query when the active flag is not part of the condition
getFlightsByUserIdMutIgnoreActive(fl, userId, activeOnly) ==
    SelectSeq(fl, LAMBDA f : f.userId = userId)

\* getFlightsByUserId(userId, activeOnly)
getFlightsByUserId(fl, userId, activeOnly) ==
    SelectSeq(fl, LAMBDA f : f.userId = userId /\ (activeOnly => f.active))

\* the indices of rows of h whose timestamp is greatest among those in idx
MaxBy(h, idx) ==
    {i \in idx : \A j \in idx : h[j].timestamp <= h[i].timestamp}

\* getLatestPrice(flightId): the possible results of ORDER BY timestamp DESC LIMIT 1
\* followed by result[0]?.price || null. Rows with equal timestamps may come back
\* in either order, so the result is a set of possible values.
getLatestPrice(h, flightId) ==
    LET idx == {i \in 1..Len(h) : h[i].flightId = flightId}
    IN  IF idx = {} THEN {None}
        ELSE {IF h[i].price # 0 THEN Some(h[i].price) ELSE None : i \in MaxBy(h, idx)}

\* the rows of a flight, in insertion order
RowsOf(h, flightId) == SelectSeq(h, LAMBDA r : r.flightId = flightId)

\* getPriceHistory(flightId): the possible results of ORDER BY timestamp. Rows with
\* equal timestamps may come back in either order, so the result is a set of
\* sequences: every arrangement of the flight's rows with non-decreasing timestamps.
getPriceHistory(h, flightId) ==
    LET sel == RowsOf(h, flightId)
        n == Len(sel)
        perms == {f \in [1..n -> 1..n] :
                    /\ \A a, b \in 1..n : a # b => f[a] # f[b]
                    /\ \A a, b \in 1..n :
                          a < b => sel[f[a]].timestamp <= sel[f[b]].timestamp}
    IN  {[k \in 1..n |-> sel[f[k]]] : f \in perms}

----------------------------------------------------------------------------
(* src/route.ts *)

\* getAllUserIds(): the hard-coded list
getAllUserIds == <<1, 2, 3>>

RECURSIVE ConcatFlights(_, _, _)
ConcatFlights(fl, ids, k) ==
    IF k > Len(ids) THEN <<>>
    ELSE getFlightsByUserId(fl, ids[k], TRUE) \o ConcatFlights(fl, ids, k + 1)

\* getAllActiveFlights(): the active flights of each listed user, concatenated
getAllActiveFlights(fl) == ConcatFlights(fl, getAllUserIds, 1)

\* whether the pass declares a drop (route.ts line 55); previousPrice is read on
\* line 52 and not used
IsDropMutAgainstPrevious(currentPrice, originalPrice, previousPrice) ==
    currentPrice < originalPrice \/ (previousPrice # None /\ currentPrice <= previousPrice[1])

IsDrop(currentPrice, originalPrice, previousPrice) ==
    currentPrice < originalPrice

\* the notification createPriceDropNotification writes
PriceDropNotification(userId, flightId, originalPrice, newPrice) ==
    [userId |-> userId, type |-> "price_drop", flightId |-> flightId,
     priceDifference |-> originalPrice - newPrice]

IdlePass == [pc |-> "idle", flights |-> <<>>, idx |-> 0, currentPrice |-> None,
             drop |-> FALSE, ecreditRequest |-> None,
             checkedFlights |-> 0, priceDrops |-> 0, threwAt |-> <<>>,
             storeError |-> FALSE, owed |-> {}, below |-> 0, notifyError |-> FALSE]

NoCall == [op |-> "none", flightId |-> 0, originalPrice |-> 0, newPrice |-> 0,
           ret |-> None]

NoResult == [success |-> FALSE, ecreditAmount |-> None, ecreditCode |-> None,
             ecreditExpirationDate |-> None, error |-> None]

\* no createFlight call yet; pc is where the call is: none, history (between its
\* two inserts) or returned; flight is the row of the first insert, historyFailed
\* whether the second insert threw, ret the return value
NoFlightCall == [pc |-> "none", flight |-> None, historyFailed |-> FALSE, ret |-> None]

\* the reconciliation pass before it runs
IdleRecon == [pc |-> "idle", pending |-> <<>>, idx |-> 0, handled |-> <<>>, runs |-> 0]

\* no read of the price history yet
NoRead == [op |-> "none", flightId |-> 0, ok |-> TRUE, history |-> <<>>, latest |-> None]

\* no fare lookup yet; a response that was not received is None
NoFare == [pc |-> "none", consulted |-> <<>>, primary |-> None, backup |-> None,
           ret |-> [kind |-> "null", value |-> 0]]

NoSubmission ==
    [pc |-> "none", airline |-> <<>>, user |-> [id |-> 0, deltaUsername |-> None],
     ecreditRequest |-> [id |-> 0, priceDifference |-> 0], now |-> 0,
     tz |-> [at |-> 0, then |-> 0], attempts |-> <<>>, simulated |-> FALSE,
     apiResult |-> NoResult, result |-> NoResult]

----------------------------------------------------------------------------
(* src/airline-communicator.ts *)

\* A Math.random() draw is a number of millionths, 0 .. 999999
RandomUnit == 1000000

\* strings are sequences of characters where the code inspects or builds them
LowerOf(c) ==
    CASE c = "D" -> "d" [] c = "E" -> "e" [] c = "L" -> "l" [] c = "T" -> "t"
      [] c = "A" -> "a" [] c = "U" -> "u" [] c = "N" -> "n" [] c = "I" -> "i"
      [] OTHER -> c

\* String.prototype.toLowerCase
toLowerCase(str) == [i \in 1..Len(str) |-> LowerOf(str[i])]

DigitChar(d) ==
    CASE d = 0 -> "0" [] d = 1 -> "1" [] d = 2 -> "2" [] d = 3 -> "3" [] d = 4 -> "4"
      [] d = 5 -> "5" [] d = 6 -> "6" [] d = 7 -> "7" [] d = 8 -> "8" [] OTHER -> "9"

RECURSIVE NumberToString(_)
\* Number.prototype.toString of a non-negative integer
NumberToString(n) ==
    IF n < 10 THEN <<DigitChar(n)>>
    ELSE Append(NumberToString(n \div 10), DigitChar(n % 10))

RECURSIVE padStart(_, _, _)
\* String.prototype.padStart with a one-character filler
padStart(str, targetLength, fill) ==
    IF Len(str) >= targetLength THEN str
    ELSE padStart(<<fill>> \o str, targetLength, fill)

\* `EC${Math.floor(Math.random() * 1000000).toString().padStart(6, '0')}`
EcreditCode(random) ==
    <<"E", "C">> \o padStart(NumberToString(random * (1000000 \div RandomUnit)), 6, "0")

\* getExpirationDate(daysFromNow): new Date() is the instant now (hours since the
\* epoch, UTC); setDate works on the local calendar date and keeps the local time
\* of day; toISOString().split('T')[0] is the UTC calendar date, here its day
\* number. tz.at is the runtime's UTC offset at now, tz.then its offset on the
\* resulting local date (they differ across a daylight-saving change).
getExpirationDateMutOffByOne(daysFromNow, now, tz) ==
    LET local == now + tz.at
        moved == ((local \div 24) + daysFromNow - 1) * 24 + (local % 24)
    IN  (moved - tz.then) \div 24

getExpirationDate(daysFromNow, now, tz) ==
    LET local == now + tz.at
        moved == ((local \div 24) + daysFromNow) * 24 + (local % 24)
    IN  (moved - tz.then) \div 24

\* an error message is the sequence of the pieces it is concatenated from
Message(text) == <<text>>

Failure(error) ==
    [success |-> FALSE, ecreditAmount |-> None, ecreditCode |-> None,
     ecreditExpirationDate |-> None, error |-> Some(error)]

Success(amount, code, expiration) ==
    [success |-> TRUE, ecreditAmount |-> Some(amount), ecreditCode |-> Some(code),
     ecreditExpirationDate |-> Some(expiration), error |-> None]

\* requestDeltaEcreditApi: r1 decides success (10%), r2 makes the code
requestDeltaEcreditApi(ecreditRequest, r1, r2, now, tz) ==
    IF r1 * 10 < RandomUnit
    THEN Success(ecreditRequest.priceDifference, EcreditCode(r2),
                 getExpirationDate(365, now, tz))
    ELSE Failure(Message("Delta API not available or request failed"))

errorReasons ==
    <<Message("Unable to log in to Delta account"),
      Message("Flight not found in user account"),
      Message("Price difference not eligible for ecredit"),
      Message("Ecredit already issued for this flight"),
      Message("Flight modification not available at this time")>>

\* !user.deltaUsername: undefined, null and the empty string are falsy
HasDeltaUsername(user) == user.deltaUsername # None /\ user.deltaUsername[1] # ""

\* requestDeltaEcreditWeb: without a Delta username it returns at once; otherwise
\* r1 decides success (70%), r2 makes the code or picks the failure reason.
\* simulated tells whether the simulated session ran (a random draw was made).
requestDeltaEcreditWebMutNoCredentialCheck(user, ecreditRequest, r1, r2, now, tz) ==
    IF r1 * 10 < 7 * RandomUnit
    THEN [simulated |-> TRUE,
          result |-> Success(ecreditRequest.priceDifference, EcreditCode(r2),
                             getExpirationDate(365, now, tz))]
    ELSE [simulated |-> TRUE,
          result |-> Failure(errorReasons[((r2 * Len(errorReasons)) \div RandomUnit) + 1])]

requestDeltaEcreditWebMutApiError(user, ecreditRequest, r1, r2, now, tz) ==
    IF ~HasDeltaUsername(user)
    THEN [simulated |-> FALSE, result |-> Failure(Message("Delta username not found"))]
    ELSE IF r1 * 10 < 7 * RandomUnit
    THEN [simulated |-> TRUE,
          result |-> Success(ecreditRequest.priceDifference, EcreditCode(r2),
                             getExpirationDate(365, now, tz))]
    ELSE [simulated |-> TRUE,
          result |-> Failure(Message("Delta API not available or request failed"))]

requestDeltaEcreditWeb(user, ecreditRequest, r1, r2, now, tz) ==
    IF ~HasDeltaUsername(user)
    THEN [simulated |-> FALSE, result |-> Failure(Message("Delta username not found"))]
    ELSE IF r1 * 10 < 7 * RandomUnit
    THEN [simulated |-> TRUE,
          result |-> Success(ecreditRequest.priceDifference, EcreditCode(r2),
                             getExpirationDate(365, now, tz))]
    ELSE [simulated |-> TRUE,
          result |-> Failure(errorReasons[((r2 * Len(errorReasons)) \div RandomUnit) + 1])]

----------------------------------------------------------------------------
(* FlightAPI (src/unnamed/part_001): the fare lookup over two sources *)

\* what a lookup hands back: null, a number, or NaN (parseFloat of a non-numeral)
Null == [kind |-> "null", value |-> 0]
Number(n) == [kind |-> "number", value |-> n]
NaN == [kind |-> "NaN", value |-> 0]

\* a JSON value found in the `price` member of a response
Missing == [type |-> "missing", num |-> 0, str |-> <<>>]
NumberValue(n) == [type |-> "number", num |-> n, str |-> <<>>]
StringValue(s) == [type |-> "string", num |-> 0, str |-> s]

\* JavaScript truthiness of a JSON value: 0, "" and undefined are falsy
TruthyValue(v) ==
    CASE v.type = "missing" -> FALSE
      [] v.type = "number" -> v.num # 0
      [] OTHER -> v.str # <<>>

IsDigit(c) == c \in {"0", "1", "2", "3", "4", "5", "6", "7", "8", "9"}

DigitValue(c) == CHOOSE d \in 0..9 : DigitChar(d) = c

RECURSIVE LeadingDigits(_)
\* the longest prefix of str made of digits
LeadingDigits(str) ==
    IF str = <<>> \/ ~IsDigit(Head(str)) THEN <<>>
    ELSE <<Head(str)>> \o LeadingDigits(Tail(str))

RECURSIVE DigitsToNumber(_)
DigitsToNumber(ds) ==
    IF ds = <<>> THEN 0
    ELSE 10 * DigitsToNumber(SubSeq(ds, 1, Len(ds) - 1)) + DigitValue(ds[Len(ds)])

\* parseFloat: a number is itself; a string is read up to its first character that
\* is not part of a numeral, and is NaN when it does not start with a numeral
\* (signs, decimal points and blanks do not occur in the strings modelled)
parseFloat(v) ==
    IF v.type = "number" THEN Number(v.num)
    ELSE IF LeadingDigits(v.str) = <<>> THEN NaN
    ELSE Number(DigitsToNumber(LeadingDigits(v.str)))

\* String.prototype.replace(/[^0-9.]/g, ''): only digits and dots are kept
replaceNonNumeric(str) == SelectSeq(str, LAMBDA c : IsDigit(c) \/ c = ".")

\* the flight asked about
FlightDetails == [airline |-> "DL", flightNumber |-> "123"]

\* price members the sources may send
PayloadPrices ==
    { Missing, NumberValue(0), NumberValue(420),
      StringValue(<<"4", "2", "0">>), StringValue(<<"$", "4", "2", "0">>),
      StringValue(<<"4", "2", "0", "U", "S", "D">>),
      StringValue(<<"N", "/", "A">>), StringValue(<<>>), StringValue(<<"0">>) }

\* what axios.get of the primary source ends in: an exception (timeout, network
\* error, non-2xx status) or a body {success, data: {price}} with members missing
PrimaryResponses ==
    { [thrown |-> TRUE, body |-> None] }
    \cup { [thrown |-> FALSE, body |-> None] }
    \cup { [thrown |-> FALSE, body |-> Some([success |-> s, data |-> None])] :
              s \in BOOLEAN }
    \cup { [thrown |-> FALSE, body |-> Some([success |-> s, data |-> Some([price |-> p])])] :
              s \in BOOLEAN, p \in PayloadPrices }

\* lines 47-70
getFlightPriceFromPrimaryAPI(response) ==
    IF response.thrown THEN Null
    ELSE IF /\ response.body # None
            /\ response.body[1].success
            /\ response.body[1].data # None
            /\ TruthyValue(response.body[1].data[1].price)
    THEN parseFloat(response.body[1].data[1].price)
    ELSE Null

OtherFlight == [airline |-> "UA", flight_number |-> "123", price |-> StringValue(<<"4", "2", "0">>)]

\* what axios.get of the backup source ends in: an exception or best_flights
BackupResponses ==
    { [thrown |-> TRUE, best_flights |-> <<>>] }
    \cup { [thrown |-> FALSE, best_flights |-> <<>>] }
    \cup { [thrown |-> FALSE, best_flights |-> <<OtherFlight>>] }
    \cup { [thrown |-> FALSE,
            best_flights |-> <<OtherFlight,
                               [airline |-> "DL", flight_number |-> "123", price |-> p]>>] :
              p \in PayloadPrices }

\* the test of the find callback (lines 100-103)
IsTargetFlight(flight, flightDetails) ==
    /\ flight.airline = flightDetails.airline
    /\ flight.flight_number = flightDetails.flightNumber

\* best_flights.find(...): the first element that satisfies the test, or undefined
TargetFlight(response, flightDetails) ==
    LET list == response.best_flights
    IN  IF \E i \in 1..Len(list) : IsTargetFlight(list[i], flightDetails)
        THEN Some(list[CHOOSE i \in 1..Len(list) :
                          /\ IsTargetFlight(list[i], flightDetails)
                          /\ \A j \in 1..(i - 1) : ~IsTargetFlight(list[j], flightDetails)])
        ELSE None

\* lines 77-117: a price that is a number has no replace method, the TypeError is
\* caught and the lookup is null
getFlightPriceFromBackupAPI(response, flightDetails) ==
    IF response.thrown THEN Null
    ELSE IF Len(response.best_flights) > 0
            /\ TargetFlight(response, flightDetails) # None
            /\ TruthyValue(TargetFlight(response, flightDetails)[1].price)
    THEN LET price == TargetFlight(response, flightDetails)[1].price
         IN  IF price.type = "number" THEN Null
             ELSE parseFloat(StringValue(replaceNonNumeric(price.str)))
    ELSE Null

----------------------------------------------------------------------------
(* The state after construction: an empty store, nothing running *)

Init ==
    /\ flights = <<>>
    /\ priceHistory = <<>>
    /\ ecreditRequests = <<>>
    /\ notifications = <<>>
    /\ clock = 0
    /\ call = NoCall
    /\ updates = 0
    /\ pass = [p \in 1..NumPasses |-> IdlePass]
    /\ passRuns = 0
    /\ creating = None
    /\ edits = 0
    /\ submission = NoSubmission
    /\ flightCall = NoFlightCall
    /\ recon = IdleRecon
    /\ reads = NoRead
    /\ fare = NoFare

----------------------------------------------------------------------------
(* src/flights.ts: createFlight, updateFlight, deactivateFlight *)

\* createFlight, first insert (lines 43-53): the flight row; a failing insert
\* leaves nothing behind and the call returns null
CreateFlightInsert(userId, originalPrice, dbOk) ==
    /\ creating = None
    /\ Len(flights) < MaxFlights
    /\ IF dbOk
       THEN /\ flights' = Append(flights,
                            NewFlightRow(Len(flights) + 1, userId, originalPrice))
            /\ creating' = Some([flightId |-> Len(flights) + 1,
                                 price |-> originalPrice])
            /\ flightCall' = [pc |-> "history",
                              flight |-> Some(NewFlightRow(Len(flights) + 1, userId,
                                                           originalPrice)),
                              historyFailed |-> FALSE,
                              ret |-> None]
       ELSE /\ UNCHANGED <<flights, creating>>
            /\ flightCall' = [pc |-> "returned", flight |-> None,
                              historyFailed |-> FALSE, ret |-> None]
    /\ UNCHANGED <<priceHistory, ecreditRequests, notifications, clock, call, updates,
                   pass, passRuns, edits, submission, recon, reads, fare>>

\* createFlight, second insert (lines 57-63) and the return (lines 65-69): the
\* first price observation; when the insert fails the catch returns null and the
\* flight row stays
CreateFlightHistory(dbOk) ==
    /\ creating # None
    /\ priceHistory' = IF dbOk
                       THEN Append(priceHistory,
                              NewPriceRow(creating[1].flightId, creating[1].price, clock))
                       ELSE priceHistory
    /\ creating' = None
    /\ flightCall' = [flightCall EXCEPT !.pc = "returned",
                                        !.historyFailed = ~dbOk,
                                        !.ret = IF dbOk THEN flightCall.flight ELSE None]
    /\ UNCHANGED <<flights, ecreditRequests, notifications, clock, call, updates,
                   pass, passRuns, edits, submission, recon, reads, fare>>

\* the same call when the new original price is copied into the flight's requests
UpdateFlightMutCascade(id, originalPrice) ==
    /\ edits < MaxEdits
    /\ id \in 1..Len(flights)
    /\ priceHistory' = Append(priceHistory, NewPriceRow(id, originalPrice, clock))
    /\ flights' = [flights EXCEPT ![id].originalPrice = originalPrice]
    /\ ecreditRequests' = [i \in 1..Len(ecreditRequests) |->
            IF ecreditRequests[i].flightId = id
            THEN [ecreditRequests[i] EXCEPT
                     !.originalPrice = originalPrice,
                     !.priceDifference = originalPrice - ecreditRequests[i].newPrice]
            ELSE ecreditRequests[i]]
    /\ edits' = edits + 1
    /\ UNCHANGED <<notifications, clock, call, updates, pass, passRuns,
                   creating, submission,
                   flightCall, recon, reads, fare>>

\* updateFlight(id, {originalPrice}) (lines 97-135): the new price is appended to
\* the history, then the flight row is updated
UpdateFlight(id, originalPrice) ==
    /\ edits < MaxEdits
    /\ id \in 1..Len(flights)
    /\ priceHistory' = Append(priceHistory, NewPriceRow(id, originalPrice, clock))
    /\ flights' = [flights EXCEPT ![id].originalPrice = originalPrice]
    /\ edits' = edits + 1
    /\ UNCHANGED <<ecreditRequests, notifications, clock, call, updates, pass, passRuns,
                   creating, submission,
                   flightCall, recon, reads, fare>>

\* deactivateFlight(id) (lines 137-149)
DeactivateFlight(id) ==
    /\ edits < MaxEdits
    /\ id \in 1..Len(flights)
    /\ flights' = [flights EXCEPT ![id].active = FALSE]
    /\ edits' = edits + 1
    /\ UNCHANGED <<priceHistory, ecreditRequests, notifications, clock, call, updates,
                   pass, passRuns, creating, submission,
                   flightCall, recon, reads, fare>>

\* addPriceToHistory(flightId, price) (lines 160-172): one insert, whose
\* timestamp is the store's CURRENT_TIMESTAMP; a failing insert is caught
AddPriceToHistory(flightId, price, dbOk) ==
    /\ flightId \in 1..Len(flights)
    /\ Len(priceHistory) < MaxHistory
    /\ priceHistory' = IF dbOk THEN Append(priceHistory, NewPriceRow(flightId, price, clock))
                       ELSE priceHistory
    /\ UNCHANGED <<flights, ecreditRequests, notifications, clock, call, updates, pass,
                   passRuns, creating, edits, submission, flightCall, recon, reads, fare>>

\* getPriceHistory(flightId) (lines 151-158); a failing query returns []
GetPriceHistory(flightId, dbOk) ==
    /\ flightId \in 1..Len(flights)
    /\ \E result \in getPriceHistory(priceHistory, flightId) :
          reads' = [op |-> "history", flightId |-> flightId, ok |-> dbOk,
                    history |-> IF dbOk THEN result ELSE <<>>, latest |-> None]
    /\ UNCHANGED <<storeVars, call, updates, pass, passRuns, creating, edits, submission,
                   flightCall, recon, fare>>

\* getLatestPrice(flightId) (lines 174-187); a failing query returns null
GetLatestPrice(flightId, dbOk) ==
    /\ flightId \in 1..Len(flights)
    /\ \E result \in getLatestPrice(priceHistory, flightId) :
          reads' = [op |-> "latest", flightId |-> flightId, ok |-> dbOk,
                    history |-> <<>>, latest |-> IF dbOk THEN result ELSE None]
    /\ UNCHANGED <<storeVars, call, updates, pass, passRuns, creating, edits, submission,
                   flightCall, recon, fare>>

\* the store's clock passes to the next second
Tick ==
    /\ clock < MaxClock
    /\ clock' = clock + 1
    /\ UNCHANGED <<flights, priceHistory, ecreditRequests, notifications, call, updates,
                   pass, passRuns, creating, edits, submission, flightCall, recon, reads, fare>>

\* a flight's ledger is appended to and read back while time passes
NextLedger ==
    \/ \E u \in Users, o \in OriginalPrices :
            Len(flights) < FrameFlights /\ CreateFlightInsert(u, o, TRUE)
    \/ CreateFlightHistory(TRUE)
    \/ \E f \in 1..MaxFlights, price \in LedgerPrices, ok \in BOOLEAN :
            AddPriceToHistory(f, price, ok)
    \/ \E f \in 1..MaxFlights, ok \in BOOLEAN : GetPriceHistory(f, ok)
    \/ \E f \in 1..MaxFlights, ok \in BOOLEAN : GetLatestPrice(f, ok)
    \/ Tick

SpecLedger == Init /\ [][NextLedger]_vars

----------------------------------------------------------------------------
(* src/ecredit-requests.ts called directly *)

CallCreateEcreditRequest(flightId, originalPrice, newPrice, dbOk) ==
    /\ flightId \in 1..Len(flights)
    /\ Len(ecreditRequests) < MaxRequests
    /\ LET r == createEcreditRequest(ecreditRequests, flightId, originalPrice,
                                     newPrice, clock, dbOk)
       IN  /\ ecreditRequests' = r.reqs
           /\ call' = [op |-> "create", flightId |-> flightId,
                       originalPrice |-> originalPrice, newPrice |-> newPrice,
                       ret |-> r.ret]
    /\ UNCHANGED <<flights, priceHistory, notifications, clock, updates, pass,
                   passRuns, creating, edits, submission,
                   flightCall, recon, reads, fare>>

CallUpdateEcreditRequestStatus(id, status, additionalData, dbOk) ==
    /\ id \in 1..Len(ecreditRequests)
    /\ updates < MaxUpdates
    /\ updates' = updates + 1
    /\ ecreditRequests' = updateEcreditRequestStatus(ecreditRequests, id, status,
                                                     additionalData, clock, dbOk).reqs
    /\ UNCHANGED <<call, flights, priceHistory, notifications, clock, pass, passRuns,
                   creating, edits, submission,
                   flightCall, recon, reads, fare>>

\* the values of additionalData the callers pass: nothing, the fields of a
\* successful submission, a failure note
AdditionalData ==
    {None,
     Some([NoFields EXCEPT !.ecreditAmount = Some(80), !.ecreditCode = Some("EC000042"),
                           !.ecreditExpirationDate = Some(365)]),
     Some([NoFields EXCEPT !.notes = Some("Unable to log in to Delta account")])}

----------------------------------------------------------------------------
(* src/route.ts: GET, the price-check pass. Every await of the handler is a   *)
(* point where other handlers run, so each store operation is one step.       *)

\* the flight the pass is processing
CurrentFlight(p) == pass[p].flights[pass[p].idx]

\* the end of one iteration of the loop (line 85): the next flight, or the
\* summary of lines 87-92
Advance(rec) ==
    [rec EXCEPT !.idx = rec.idx + 1,
                !.pc = IF rec.idx < Len(rec.flights) THEN "fetch" ELSE "done"]

\* lines 15-31: list the active flights; with none, return the empty summary
PassStart(p) ==
    /\ pass[p].pc \in {"idle", "done"}
    /\ passRuns < MaxPassRuns
    /\ passRuns' = passRuns + 1
    /\ LET fl == getAllActiveFlights(flights)
       IN  pass' = [pass EXCEPT ![p] =
                [IdlePass EXCEPT !.flights = fl,
                                 !.owed = pass[p].owed,
                                 !.idx = IF Len(fl) = 0 THEN 0 ELSE 1,
                                 !.pc = IF Len(fl) = 0 THEN "done" ELSE "fetch"]]
    /\ UNCHANGED <<storeVars, call, updates, creating, edits, submission,
                   flightCall, recon, reads, fare>>

\* lines 37-47: the fare lookup returns a price or null; checkedFlights++; a
\* falsy price (null or 0) ends the iteration
\* (below counts, for the properties, the fetched prices under the original price)
PassFetch(p, price) ==
    /\ pass[p].pc = "fetch"
    /\ LET rec == [pass[p] EXCEPT !.currentPrice = price, !.drop = FALSE,
                                  !.ecreditRequest = None, !.storeError = FALSE,
                                  !.notifyError = FALSE,
                                  !.below = IF price # None /\ price[1] <
                                                  CurrentFlight(p).originalPrice
                                            THEN @ + 1 ELSE @,
                                  !.checkedFlights = pass[p].checkedFlights + 1]
       IN  pass' = [pass EXCEPT ![p] =
                IF Truthy(price) THEN [rec EXCEPT !.pc = "append"] ELSE Advance(rec)]
    /\ UNCHANGED <<storeVars, call, updates, passRuns, creating, edits, submission,
                   flightCall, recon, reads, fare>>

\* line 49: addPriceToHistory; a failing insert is caught inside and returns null
PassAppend(p, dbOk) ==
    /\ pass[p].pc = "append"
    /\ priceHistory' = IF dbOk
                       THEN Append(priceHistory,
                              NewPriceRow(CurrentFlight(p).id, pass[p].currentPrice[1], clock))
                       ELSE priceHistory
    /\ pass' = [pass EXCEPT ![p].pc = "latest"]
    /\ UNCHANGED <<flights, ecreditRequests, notifications, clock, call, updates, passRuns,
                   creating, edits, submission,
                   flightCall, recon, reads, fare>>

\* lines 52-56: getLatestPrice, then the comparison with the flight's original
\* price as the pass read it; on a drop priceDrops++ and createEcreditRequest is called
PassLatest(p) ==
    /\ pass[p].pc = "latest"
    /\ \E previousPrice \in getLatestPrice(priceHistory, CurrentFlight(p).id) \cup {None} :
         pass' = [pass EXCEPT ![p] =
            IF IsDrop(pass[p].currentPrice[1], CurrentFlight(p).originalPrice, previousPrice)
            THEN [pass[p] EXCEPT !.drop = TRUE, !.pc = "create",
                                 !.priceDrops = pass[p].priceDrops + 1]
            ELSE Advance(pass[p])]
    /\ UNCHANGED <<storeVars, call, updates, passRuns, creating, edits, submission,
                   flightCall, recon, reads, fare>>

\* the same step without the test `if (ecreditRequest)` of line 66
PassCreateMutAlwaysNotify(p, dbOk) ==
    /\ pass[p].pc = "create"
    /\ Len(ecreditRequests) < MaxRequests
    /\ LET r == createEcreditRequest(ecreditRequests, CurrentFlight(p).id,
                    CurrentFlight(p).originalPrice, pass[p].currentPrice[1], clock, dbOk)
       IN  /\ ecreditRequests' = r.reqs
           /\ pass' = [pass EXCEPT ![p].ecreditRequest = r.ret,
                                   ![p].storeError = ~dbOk,
                                   ![p].pc = "notify"]
    /\ UNCHANGED <<flights, priceHistory, notifications, clock, call, updates, passRuns,
                   creating, edits, submission,
                   flightCall, recon, reads, fare>>

\* the ledger holds the observation of this iteration
Observed(p) ==
    \E i \in 1..Len(priceHistory) :
        /\ priceHistory[i].flightId = CurrentFlight(p).id
        /\ priceHistory[i].price = pass[p].currentPrice[1]

\* lines 59-66: createEcreditRequest; a returned request leads to the notification
\* (storeError and owed record, for the properties, that the insert failed and for
\* which observed flights a creation failed and has not succeeded since)
PassCreate(p, dbOk) ==
    /\ pass[p].pc = "create"
    /\ Len(ecreditRequests) < MaxRequests
    /\ LET r == createEcreditRequest(ecreditRequests, CurrentFlight(p).id,
                    CurrentFlight(p).originalPrice, pass[p].currentPrice[1], clock, dbOk)
           rec == [pass[p] EXCEPT !.ecreditRequest = r.ret,
                                  !.storeError = ~dbOk,
                                  !.owed = IF r.ret # None
                                           THEN @ \ {CurrentFlight(p).id}
                                           ELSE IF Observed(p)
                                           THEN @ \cup {CurrentFlight(p).id}
                                           ELSE @]
       IN  /\ ecreditRequests' = r.reqs
           /\ pass' = [pass EXCEPT ![p] =
                IF r.ret # None THEN [rec EXCEPT !.pc = "notify"] ELSE Advance(rec)]
    /\ UNCHANGED <<flights, priceHistory, notifications, clock, call, updates, passRuns,
                   creating, edits, submission,
                   flightCall, recon, reads, fare>>

\* the same step when a failed notification undoes the request just created
PassNotifyMutRollback(p, dbOk) ==
    /\ pass[p].pc = "notify"
    /\ notifications' = IF dbOk
                        THEN Append(notifications,
                               PriceDropNotification(CurrentFlight(p).userId,
                                   CurrentFlight(p).id, CurrentFlight(p).originalPrice,
                                   pass[p].currentPrice[1]))
                        ELSE notifications
    /\ ecreditRequests' = IF dbOk THEN ecreditRequests
                          ELSE SelectSeq(ecreditRequests,
                                 LAMBDA r : r.id # pass[p].ecreditRequest[1].id)
    /\ pass' = [pass EXCEPT ![p] = Advance([pass[p] EXCEPT !.notifyError = ~dbOk])]
    /\ UNCHANGED <<flights, priceHistory, clock, call, updates, passRuns,
                   creating, edits, submission,
                   flightCall, recon, reads, fare>>

\* lines 67-77: createPriceDropNotification; a failing insert is caught inside
PassNotify(p, dbOk) ==
    /\ pass[p].pc = "notify"
    /\ notifications' = IF dbOk
                        THEN Append(notifications,
                               PriceDropNotification(CurrentFlight(p).userId,
                                   CurrentFlight(p).id, CurrentFlight(p).originalPrice,
                                   pass[p].currentPrice[1]))
                        ELSE notifications
    /\ pass' = [pass EXCEPT ![p] = Advance([pass[p] EXCEPT !.notifyError = ~dbOk])]
    /\ UNCHANGED <<flights, priceHistory, ecreditRequests, clock, call, updates, passRuns,
                   creating, edits, submission,
                   flightCall, recon, reads, fare>>

\* the same step when every exception leaves the handler: the catch of lines 93-99
PassThrowMutAbort(p) ==
    /\ pass[p].pc \in {"fetch", "append", "latest", "create", "notify"}
    /\ pass' = [pass EXCEPT ![p].pc = "error",
                            ![p].threwAt = Append(@, pass[p].idx)]
    /\ UNCHANGED <<storeVars, call, updates, passRuns, creating, edits, submission,
                   flightCall, recon, reads, fare>>

\* lines 35-84: an exception raised at any await inside the loop body's try block is
\* caught by the catch of lines 81-84, which logs it and goes on with the next
\* flight; a fare lookup that throws has not reached checkedFlights++ (line 45)
PassThrow(p) ==
    /\ pass[p].pc \in {"fetch", "append", "latest", "create", "notify"}
    /\ pass' = [pass EXCEPT ![p] =
                Advance([pass[p] EXCEPT !.threwAt = Append(@, pass[p].idx)])]
    /\ UNCHANGED <<storeVars, call, updates, passRuns, creating, edits, submission,
                   flightCall, recon, reads, fare>>

----------------------------------------------------------------------------

\* the status updates a reconciliation of a request makes (specification, 4.4):
\* submission begins, it succeeded, every channel failed
ReconcileUpdates ==
    {[status |-> "in_progress", data |-> None],
     [status |-> "completed",
      data |-> Some([NoFields EXCEPT !.ecreditAmount = Some(80),
                                     !.ecreditCode = Some("EC000042"),
                                     !.ecreditExpirationDate = Some(365)])],
     [status |-> "failed",
      data |-> Some([NoFields EXCEPT !.notes = Some("Unable to log in to Delta account")])]}

\* the price-check pipeline: flights are created, passes run, requests are reconciled
Next ==
    \/ \E u \in Users, o \in OriginalPrices, ok \in BOOLEAN : CreateFlightInsert(u, o, ok)
    \/ \E ok \in BOOLEAN : CreateFlightHistory(ok)
    \/ \E id \in 1..MaxRequests, u \in ReconcileUpdates :
            CallUpdateEcreditRequestStatus(id, u.status, u.data, TRUE)
    \/ \E p \in 1..NumPasses : PassStart(p)
    \/ \E p \in 1..NumPasses, price \in {None} \cup {Some(x) : x \in FetchedPrices} :
            PassFetch(p, price)
    \/ \E p \in 1..NumPasses, ok \in BOOLEAN : PassAppend(p, ok)
    \/ \E p \in 1..NumPasses : PassLatest(p)
    \/ \E p \in 1..NumPasses, ok \in BOOLEAN : PassCreate(p, ok)
    \/ \E p \in 1..NumPasses, ok \in BOOLEAN : PassNotify(p, ok)

Spec == Init /\ [][Next]_vars

\* the request manager called directly, on a store that holds flights
NextManager ==
    \/ \E u \in Users, o \in OriginalPrices : CreateFlightInsert(u, o, TRUE)
    \/ CreateFlightHistory(TRUE)
    \/ \E f \in 1..MaxFlights, o \in CallPrices, n \in CallPrices, ok \in BOOLEAN :
            CallCreateEcreditRequest(f, o, n, ok)
    \/ \E id \in 1..MaxRequests, st \in RequestStatus, ad \in AdditionalData,
          ok \in BOOLEAN : CallUpdateEcreditRequestStatus(id, st, ad, ok)

SpecManager == Init /\ [][NextManager]_vars

\* flights are created, edited and deactivated and requests are updated while
\* price-check passes run
NextFlights ==
    \/ \E u \in Users, o \in OriginalPrices :
            Len(flights) < FrameFlights /\ CreateFlightInsert(u, o, TRUE)
    \/ CreateFlightHistory(TRUE)
    \/ \E id \in 1..MaxFlights, o \in EditedPrices : UpdateFlight(id, o)
    \/ \E id \in 1..MaxFlights : DeactivateFlight(id)
    \/ \E id \in 1..MaxRequests, st \in RequestStatus, ad \in AdditionalData :
            CallUpdateEcreditRequestStatus(id, st, ad, TRUE)
    \/ passRuns = 0 /\ PassStart(1)
    \/ \E price \in {None, Some(420)} : PassFetch(1, price)
    \/ PassAppend(1, TRUE)
    \/ PassLatest(1)
    \/ PassCreate(1, TRUE)
    \/ PassNotify(1, TRUE)

SpecFlights == Init /\ [][NextFlights]_vars

\* one price-check pass over flights that already have requests, while the
\* requests are reconciled
NextFrame ==
    \/ \E u \in Users, o \in OriginalPrices :
            Len(flights) < FrameFlights /\ CreateFlightInsert(u, o, TRUE)
    \/ CreateFlightHistory(TRUE)
    \/ \E f \in 1..MaxFlights, o \in OriginalPrices, n \in CallPrices :
            o - n > 0 /\ CallCreateEcreditRequest(f, o, n, TRUE)
    \/ \E id \in 1..MaxRequests, u \in ReconcileUpdates :
            CallUpdateEcreditRequestStatus(id, u.status, u.data, TRUE)
    \/ \E p \in 1..NumPasses : passRuns = 0 /\ PassStart(p)
    \/ \E p \in 1..NumPasses, price \in {None} \cup {Some(x) : x \in FetchedPrices} :
            PassFetch(p, price)
    \/ \E p \in 1..NumPasses, ok \in BOOLEAN : PassAppend(p, ok)
    \/ \E p \in 1..NumPasses : PassLatest(p)
    \/ \E p \in 1..NumPasses : PassCreate(p, TRUE)
    \/ \E p \in 1..NumPasses : PassNotify(p, TRUE)

SpecFrame == Init /\ [][NextFrame]_vars

\* the scheduled trigger fires again while the previous pass is still running:
\* several invocations of GET run at once, each started once, and their store
\* operations interleave
InitOverlap ==
    /\ flights = <<>>
    /\ priceHistory = <<>>
    /\ ecreditRequests = <<>>
    /\ notifications = <<>>
    /\ clock = 0
    /\ call = NoCall
    /\ updates = 0
    /\ pass = [p \in 1..Overlap |-> IdlePass]
    /\ passRuns = 0
    /\ creating = None
    /\ edits = 0
    /\ submission = NoSubmission
    /\ flightCall = NoFlightCall
    /\ recon = IdleRecon
    /\ reads = NoRead
    /\ fare = NoFare

NextOverlap ==
    \/ \E u \in Users, o \in OriginalPrices :
            Len(flights) < FrameFlights /\ CreateFlightInsert(u, o, TRUE)
    \/ CreateFlightHistory(TRUE)
    \/ \E p \in 1..Overlap : pass[p].pc = "idle" /\ PassStart(p)
    \/ \E p \in 1..Overlap, price \in {None} \cup {Some(x) : x \in FetchedPrices} :
            PassFetch(p, price)
    \/ \E p \in 1..Overlap, ok \in BOOLEAN : PassAppend(p, ok)
    \/ \E p \in 1..Overlap : PassLatest(p)
    \/ \E p \in 1..Overlap, ok \in BOOLEAN : PassCreate(p, ok)
    \/ \E p \in 1..Overlap, ok \in BOOLEAN : PassNotify(p, ok)

SpecOverlap == InitOverlap /\ [][NextOverlap]_vars

----------------------------------------------------------------------------
(* src/worker.ts: processEcreditRequests, the reconciliation pass *)

\* lines 63-67: the pending requests are selected (the helper of lines 99-110
\* returns the empty list when the query fails) and counted in the log
ReconStart(dbOk) ==
    /\ recon.pc \in {"idle", "done"}
    /\ recon.runs < MaxReconRuns
    /\ LET pending == IF dbOk THEN getPendingEcreditRequests(ecreditRequests) ELSE <<>>
       IN  recon' = [pc |-> IF Len(pending) = 0 THEN "done" ELSE "loop",
                     pending |-> pending,
                     idx |-> IF Len(pending) = 0 THEN 0 ELSE 1,
                     handled |-> <<>>,
                     runs |-> recon.runs + 1]
    /\ UNCHANGED <<storeVars, call, updates, pass, passRuns, creating, edits, submission,
                   flightCall, reads, fare>>

\* lines 70-77: one iteration of the loop. The body logs the request and does
\* nothing else: no submission to the airline, no status update.
ReconHandle ==
    /\ recon.pc = "loop"
    /\ recon' = [recon EXCEPT
                    !.handled = Append(recon.handled, recon.pending[recon.idx].id),
                    !.idx = recon.idx + 1,
                    !.pc = IF recon.idx < Len(recon.pending) THEN "loop" ELSE "done"]
    /\ UNCHANGED <<storeVars, call, updates, pass, passRuns, creating, edits, submission,
                   flightCall, reads, fare>>

\* requests are created and updated while reconciliation passes run
NextReconcile ==
    \/ \E u \in Users, o \in OriginalPrices : CreateFlightInsert(u, o, TRUE)
    \/ CreateFlightHistory(TRUE)
    \/ \E f \in 1..MaxFlights, o \in OriginalPrices :
            CallCreateEcreditRequest(f, o, 420, TRUE)
    \/ \E id \in 1..MaxRequests, st \in RequestStatus :
            CallUpdateEcreditRequestStatus(id, st, None, TRUE)
    \/ \E ok \in BOOLEAN : ReconStart(ok)
    \/ ReconHandle

SpecReconcile == Init /\ [][NextReconcile]_vars

----------------------------------------------------------------------------
(* src/airline-communicator.ts: one call of requestEcredit, channel by channel *)

Airlines ==
    {<<"d", "e", "l", "t", "a">>, <<"D", "e", "l", "t", "a">>,
     <<"D", "E", "L", "T", "A">>, <<"u", "n", "i", "t", "e", "d">>}

SubmitUsers ==
    {[id |-> 1, deltaUsername |-> None], [id |-> 2, deltaUsername |-> Some("")],
     [id |-> 3, deltaUsername |-> Some("flyer")]}

SubmitRequests == {[id |-> 1, priceDifference |-> 80], [id |-> 2, priceDifference |-> 90]}

\* the values Math.random() takes, in millionths: both sides of the 10% and 70%
\* thresholds, every index of errorReasons, short and long code numbers
RandomDraws == {0, 42, 99999, 100000, 200000, 400000, 699999, 700000, 999999}

\* the instants of submission, in hours since the epoch (day 10, several times of day)
SubmitHours == {240, 243, 260, 263}

\* the runtime's UTC offset at submission and on the expiration date, in hours
Timezones ==
    {[at |-> 0, then |-> 0], [at |-> -5, then |-> -5], [at |-> 9, then |-> 9],
     [at |-> -5, then |-> -4], [at |-> -4, then |-> -5]}

\* requestEcredit (lines 52-79): unsupported airlines fail at once, Delta goes to
\* requestDeltaEcredit. The communicator keeps no state between calls, so one
\* call is followed from the initial state.
RequestEcreditMutNoAirlineCheck(airline, user, ecreditRequest, now, tz) ==
    /\ submission.pc = "none"
    /\ submission' =
         [NoSubmission EXCEPT
            !.airline = airline, !.user = user, !.ecreditRequest = ecreditRequest,
            !.now = now, !.tz = tz, !.pc = "api"]
    /\ UNCHANGED <<storeVars, call, updates, pass, passRuns, creating, edits,
                   flightCall, recon, reads, fare>>

RequestEcredit(airline, user, ecreditRequest, now, tz) ==
    /\ submission.pc = "none"
    /\ submission' =
         [NoSubmission EXCEPT
            !.airline = airline, !.user = user, !.ecreditRequest = ecreditRequest,
            !.now = now, !.tz = tz,
            !.pc = IF toLowerCase(airline) = <<"d", "e", "l", "t", "a">>
                   THEN "api" ELSE "done",
            !.result = IF toLowerCase(airline) = <<"d", "e", "l", "t", "a">>
                       THEN NoResult
                       ELSE Failure(<<"Airline ">> \o airline \o <<" not supported">>)]
    /\ UNCHANGED <<storeVars, call, updates, pass, passRuns, creating, edits,
                   flightCall, recon, reads, fare>>

\* requestDeltaEcredit, lines 94-98: the API channel first; its success is returned
RequestDeltaEcreditMutAlwaysWeb(r1, r2) ==
    /\ submission.pc = "api"
    /\ LET apiResult == requestDeltaEcreditApi(submission.ecreditRequest, r1, r2,
                                               submission.now, submission.tz)
       IN  submission' =
             [submission EXCEPT !.attempts = Append(submission.attempts, "api"),
                                !.apiResult = apiResult,
                                !.pc = "web"]
    /\ UNCHANGED <<storeVars, call, updates, pass, passRuns, creating, edits,
                   flightCall, recon, reads, fare>>

RequestDeltaEcredit(r1, r2) ==
    /\ submission.pc = "api"
    /\ LET apiResult == requestDeltaEcreditApi(submission.ecreditRequest, r1, r2,
                                               submission.now, submission.tz)
       IN  submission' =
             [submission EXCEPT !.attempts = Append(submission.attempts, "api"),
                                !.apiResult = apiResult,
                                !.result = IF apiResult.success THEN apiResult
                                           ELSE submission.result,
                                !.pc = IF apiResult.success THEN "done" ELSE "web"]
    /\ UNCHANGED <<storeVars, call, updates, pass, passRuns, creating, edits,
                   flightCall, recon, reads, fare>>

\* requestDeltaEcredit, line 101: the web automation channel; its result is returned
RequestDeltaEcreditFallback(r1, r2) ==
    /\ submission.pc = "web"
    /\ LET web == requestDeltaEcreditWeb(submission.user, submission.ecreditRequest,
                                         r1, r2, submission.now, submission.tz)
       IN  submission' =
             [submission EXCEPT !.attempts = Append(submission.attempts, "web"),
                                !.simulated = web.simulated,
                                !.result = web.result,
                                !.pc = "done"]
    /\ UNCHANGED <<storeVars, call, updates, pass, passRuns, creating, edits,
                   flightCall, recon, reads, fare>>

NextSubmit ==
    \/ \E a \in Airlines, u \in SubmitUsers, r \in SubmitRequests, now \in SubmitHours,
          tz \in Timezones : RequestEcredit(a, u, r, now, tz)
    \/ \E r1 \in RandomDraws, r2 \in RandomDraws : RequestDeltaEcredit(r1, r2)
    \/ \E r1 \in RandomDraws, r2 \in RandomDraws : RequestDeltaEcreditFallback(r1, r2)

SpecSubmit == Init /\ [][NextSubmit]_vars

\* reconciliation passes run over stored requests while the communicator is called
\* for a request (by a caller other than the pass, which never calls it)
NextReconcileSubmit ==
    \/ \E u \in Users, o \in OriginalPrices : CreateFlightInsert(u, o, TRUE)
    \/ CreateFlightHistory(TRUE)
    \/ \E f \in 1..MaxFlights, o \in OriginalPrices, n \in CallPrices :
            CallCreateEcreditRequest(f, o, n, TRUE)
    \/ \E ok \in BOOLEAN : ReconStart(ok)
    \/ ReconHandle
    \/ \E u \in SubmitUsers, r \in SubmitRequests :
            RequestEcredit(<<"d", "e", "l", "t", "a">>, u, r, 240, [at |-> 0, then |-> 0])
    \/ \E r1 \in RandomDraws, r2 \in RandomDraws : RequestDeltaEcredit(r1, r2)
    \/ \E r1 \in RandomDraws, r2 \in RandomDraws : RequestDeltaEcreditFallback(r1, r2)

SpecReconcileSubmit == Init /\ [][NextReconcileSubmit]_vars

----------------------------------------------------------------------------
(* FlightAPI.getFlightPrice, one step per await *)

\* lines 26-29: the call starts and awaits the primary source
GetFlightPrice ==
    /\ fare.pc \in {"none", "done"}
    /\ fare' = [NoFare EXCEPT !.pc = "primary"]
    /\ UNCHANGED <<flights, priceHistory, ecreditRequests, notifications, clock, call,
                   updates, pass, passRuns, creating, edits, submission, flightCall,
                   recon, reads>>

\* lines 29-35: the primary lookup resolves; anything but null is returned
FromPrimaryAPI(response) ==
    /\ fare.pc = "primary"
    /\ LET price == getFlightPriceFromPrimaryAPI(response)
       IN  fare' = [fare EXCEPT !.consulted = Append(@, "primary"),
                                !.primary = Some(response),
                                !.pc = IF price # Null THEN "done" ELSE "backup",
                                !.ret = price]
    /\ UNCHANGED <<flights, priceHistory, ecreditRequests, notifications, clock, call,
                   updates, pass, passRuns, creating, edits, submission, flightCall,
                   recon, reads>>

\* line 35: the backup lookup resolves and its value is returned
FromBackupAPI(response) ==
    /\ fare.pc = "backup"
    /\ fare' = [fare EXCEPT !.consulted = Append(@, "backup"),
                            !.backup = Some(response),
                            !.pc = "done",
                            !.ret = getFlightPriceFromBackupAPI(response, FlightDetails)]
    /\ UNCHANGED <<flights, priceHistory, ecreditRequests, notifications, clock, call,
                   updates, pass, passRuns, creating, edits, submission, flightCall,
                   recon, reads>>

NextFare ==
    \/ GetFlightPrice
    \/ \E response \in PrimaryResponses : FromPrimaryAPI(response)
    \/ \E response \in BackupResponses : FromBackupAPI(response)

SpecFare == Init /\ [][NextFare]_vars

\* one pass in which the processing of a flight may raise an exception at any step
NextIsolation ==
    \/ \E u \in Users, o \in OriginalPrices : CreateFlightInsert(u, o, TRUE)
    \/ CreateFlightHistory(TRUE)
    \/ passRuns = 0 /\ PassStart(1)
    \/ \E price \in {None, Some(420)} : PassFetch(1, price)
    \/ PassAppend(1, TRUE)
    \/ PassLatest(1)
    \/ PassCreate(1, TRUE)
    \/ \E ok \in BOOLEAN : PassNotify(1, ok)
    \/ PassThrow(1)

SpecIsolation == Init /\ [][NextIsolation]_vars

\* flights are deactivated between and during price-check passes
NextDeactivate ==
    \/ \E u \in Users, o \in OriginalPrices :
            Len(flights) < FrameFlights /\ CreateFlightInsert(u, o, TRUE)
    \/ CreateFlightHistory(TRUE)
    \/ \E id \in 1..MaxFlights : DeactivateFlight(id)
    \/ PassStart(1)
    \/ \E price \in {None, Some(420)} : PassFetch(1, price)
    \/ PassAppend(1, TRUE)
    \/ PassLatest(1)
    \/ PassCreate(1, TRUE)
    \/ PassNotify(1, TRUE)

SpecDeactivate == Init /\ [][NextDeactivate]_vars

\* one price-check pass in which the store may fail at the request and at the
\* notification
NextNotify ==
    \/ \E u \in Users, o \in OriginalPrices : CreateFlightInsert(u, o, TRUE)
    \/ CreateFlightHistory(TRUE)
    \/ passRuns = 0 /\ PassStart(1)
    \/ \E price \in {None, Some(420), Some(510)} : PassFetch(1, price)
    \/ PassAppend(1, TRUE)
    \/ PassLatest(1)
    \/ \E ok \in BOOLEAN : PassCreate(1, ok)
    \/ \E ok \in BOOLEAN : PassNotify(1, ok)

SpecNotify == Init /\ [][NextNotify]_vars

\* a date the caller supplies as completionDate
SuppliedDate == 7

\* additionalData with each of the callers' field sets and, as completionDate,
\* nothing, a date or the empty string
CompletionData ==
    {None} \cup
    { Some([d[1] EXCEPT !.completionDate = c]) :
        d \in (AdditionalData \ {None}) \cup {Some(NoFields)},
        c \in {None, Some(SuppliedDate), Some(EmptyDate)} }

\* the store with one flight and one request, as created or after one status update
InitComplete ==
    /\ flights = <<NewFlightRow(1, 1, 500)>>
    /\ priceHistory = <<NewPriceRow(1, 500, 0)>>
    /\ ecreditRequests \in
          {<<NewRequestRow(1, 1, 500, 420, 80, 0)>>} \cup
          { <<ApplyUpdate(NewRequestRow(1, 1, 500, 420, 80, 0), st, ad, 0)>> :
              st \in RequestStatus, ad \in CompletionData }
    /\ notifications = <<>>
    /\ clock = 0
    /\ call = NoCall
    /\ updates = 0
    /\ pass = [p \in 1..NumPasses |-> IdlePass]
    /\ passRuns = 0
    /\ creating = None
    /\ edits = 0
    /\ submission = NoSubmission
    /\ flightCall = NoFlightCall
    /\ recon = IdleRecon
    /\ reads = NoRead
    /\ fare = NoFare

\* a stored request receives a further status update, at any time
NextComplete ==
    \/ \E id \in 1..MaxRequests, st \in RequestStatus, ad \in CompletionData,
          ok \in BOOLEAN : CallUpdateEcreditRequestStatus(id, st, ad, ok)
    \/ Tick

SpecComplete == InitComplete /\ [][NextComplete]_vars

----------------------------------------------------------------------------
(* Properties *)

Delta == <<"d", "e", "l", "t", "a">>

\* the flight whose iteration pass p has just finished, when there is one: its
\* currentPrice, drop and ecreditRequest are still those of that iteration
Finished(p) == pass[p].pc \in {"fetch", "done"} /\ pass[p].idx >= 2

FinishedFlight(p) == pass[p].flights[pass[p].idx - 1]

\* C1: for every flight, at most one of its ecredit requests is pending or
\* in_progress, whatever passes, createEcreditRequest calls and status updates ran
C1_AtMostOneUnresolved ==
    \A f \in 1..Len(flights) : Cardinality(UnresolvedOf(ecreditRequests, f)) <= 1

\* C2: a createEcreditRequest call that follows a createEcreditRequest call for the
\* same flight, whose request is still pending or in_progress, returns that same
\* request and adds no row for the flight
C2_CreateTwiceReturnsSame ==
    [][\A n \in CallPrices :
          ( /\ call.op = "create"
            /\ call.ret # None
            /\ ecreditRequests[call.ret[1].id].status \in Unresolved
            /\ CallCreateEcreditRequest(call.flightId, call.originalPrice, n, TRUE)
            /\ call.originalPrice - n > 0 )
          => /\ call'.ret # None
             /\ call'.ret[1].id = call.ret[1].id
             /\ Len(ecreditRequests') = Len(ecreditRequests)]_vars

\* C3: every stored request has priceDifference = originalPrice - newPrice > 0
\* (the table starts empty, so it is enough that every step leaves it so), and a
\* createEcreditRequest call with originalPrice - newPrice <= 0 returns nothing
\* and leaves the stored requests as they were
C3_PositiveDifference ==
    [][ /\ \A i \in 1..Len(ecreditRequests') :
              /\ ecreditRequests'[i].priceDifference =
                     ecreditRequests'[i].originalPrice - ecreditRequests'[i].newPrice
              /\ ecreditRequests'[i].priceDifference > 0
        /\ (call' # call /\ call'.originalPrice - call'.newPrice <= 0)
           => (call'.ret = None /\ ecreditRequests' = ecreditRequests) ]_vars

\* C3 witness: a request is stored and the last call, whose price difference was
\* not positive, returned nothing
C3_Witness ==
    /\ Len(ecreditRequests) >= 1
    /\ call.op = "create"
    /\ call.originalPrice - call.newPrice <= 0
    /\ call.ret = None

\* C4: for a flight the pass obtained a price for, a drop was declared exactly
\* when that price is below the flight's original price
C4_DropIffBelowOriginal ==
    \A p \in 1..NumPasses :
        (Finished(p) /\ pass[p].currentPrice # None)
        => (pass[p].drop <=> pass[p].currentPrice[1] < FinishedFlight(p).originalPrice)

\* C5: a request's status changes only along pending -> in_progress,
\* in_progress -> completed, pending -> failed, in_progress -> failed
C5_StatusLifecycle ==
    [][\A i \in 1..Len(ecreditRequests) :
          \/ ecreditRequests'[i].status = ecreditRequests[i].status
          \/ LegalTransition(ecreditRequests[i].status, ecreditRequests'[i].status)]_vars

\* C6: when the pass obtained a price below the flight's original price and no
\* other request of the flight is pending or in_progress, the pass stored a new
\* request for the flight: pending, with the flight's original price, the fetched
\* price as newPrice, and no completion date, ecredit amount or ecredit code
C6_DropCreatesPendingRequest ==
    \A p \in 1..NumPasses :
        ( /\ Finished(p)
          /\ pass[p].currentPrice # None
          /\ pass[p].currentPrice[1] < flights[FinishedFlight(p).id].originalPrice
          /\ \A i \in UnresolvedOf(ecreditRequests, FinishedFlight(p).id) :
                 pass[p].ecreditRequest = Some(ecreditRequests[i]) )
        => /\ pass[p].ecreditRequest # None
           /\ LET r == pass[p].ecreditRequest[1]
              IN  /\ r.id \in 1..Len(ecreditRequests)
                  /\ ecreditRequests[r.id].flightId = FinishedFlight(p).id
                  /\ r.status = "pending"
                  /\ r.originalPrice = flights[FinishedFlight(p).id].originalPrice
                  /\ r.newPrice = pass[p].currentPrice[1]
                  /\ r.completionDate = None
                  /\ r.ecreditAmount = None
                  /\ r.ecreditCode = None

\* C7: the API channel is attempted first, and when it succeeds the web channel is
\* not attempted and the API result is the result of the submission
C7_ApiFirstShortCircuit ==
    /\ Len(submission.attempts) >= 1 => submission.attempts[1] = "api"
    /\ (submission.pc = "done" /\ toLowerCase(submission.airline) = Delta)
       => Len(submission.attempts) >= 1
    /\ submission.apiResult.success
       => /\ submission.attempts = <<"api">>
          /\ submission.pc = "done"
          /\ submission.result = submission.apiResult

\* C7 witness: a submission that ended with the API channel's success
C7_Witness ==
    submission.pc = "done" /\ submission.apiResult.success

\* C8: when the API channel failed and the user has no Delta username, the
\* result is the failure "Delta username not found" and the simulated web session
\* did not run
C8_MissingCredentials ==
    ( /\ submission.pc = "done"
      /\ submission.attempts = <<"api", "web">>
      /\ ~HasDeltaUsername(submission.user) )
    => /\ ~submission.result.success
       /\ submission.result.error = Some(Message("Delta username not found"))
       /\ ~submission.simulated

\* C8 witness: the API channel failed for a user without a Delta username
C8_Witness ==
    /\ submission.pc = "done"
    /\ submission.attempts = <<"api", "web">>
    /\ submission.user.deltaUsername = None

\* the UTC calendar day of the submission
SubmissionDay == submission.now \div 24

\* C9 as stated: a successful result carries the request's priceDifference, a
\* non-empty code and the date 365 days after the day of submission
C9_ExpirationExactly365 ==
    (submission.pc = "done" /\ submission.result.success)
    => /\ submission.result.ecreditAmount = Some(submission.ecreditRequest.priceDifference)
       /\ submission.result.ecreditCode # None
       /\ Len(submission.result.ecreditCode[1]) > 0
       /\ submission.result.ecreditExpirationDate = Some(SubmissionDay + 365)

\* C9 amended: a successful result carries the request's priceDifference, a
\* non-empty code and a date 364 to 366 days after the UTC day of submission,
\* exactly 365 days after it when the runtime's UTC offset is the same at the
\* submission and on the expiration date
C9_ExpirationAbout365 ==
    (submission.pc = "done" /\ submission.result.success)
    => /\ submission.result.ecreditAmount = Some(submission.ecreditRequest.priceDifference)
       /\ submission.result.ecreditCode # None
       /\ Len(submission.result.ecreditCode[1]) > 0
       /\ submission.result.ecreditExpirationDate # None
       /\ submission.result.ecreditExpirationDate[1] \in
              (SubmissionDay + 364)..(SubmissionDay + 366)
       /\ submission.tz.at = submission.tz.then
          => submission.result.ecreditExpirationDate = Some(SubmissionDay + 365)

\* C9 witness: a success of the web channel in a runtime whose local date differs
\* from the UTC date at the submission
C9_Witness ==
    /\ submission.pc = "done"
    /\ submission.result.success
    /\ submission.attempts = <<"api", "web">>
    /\ (submission.now + submission.tz.at) \div 24 # SubmissionDay

\* C10: when the API channel failed and the web channel ran and failed, the
\* result's error is one of the web channel's five reasons, not the API's error
C10_LastChannelError ==
    ( /\ submission.pc = "done"
      /\ submission.attempts = <<"api", "web">>
      /\ submission.simulated
      /\ ~submission.result.success )
    => /\ \E k \in 1..Len(errorReasons) : submission.result.error = Some(errorReasons[k])
       /\ Len(errorReasons) = 5
       /\ submission.result.error # submission.apiResult.error

\* C10 witness: both channels failed, the web channel with its last reason
C10_Witness ==
    /\ submission.pc = "done"
    /\ submission.attempts = <<"api", "web">>
    /\ submission.simulated
    /\ submission.result.error = Some(errorReasons[5])

\* whether the sequence part occurs in the sequence whole as a contiguous run
Occurs(part, whole) ==
    \E k \in 1..(Len(whole) - Len(part) + 1) :
        SubSeq(whole, k, k + Len(part) - 1) = part

\* C11: requestEcredit for an airline that is not Delta in any letter case returns,
\* in its first step, a failure whose error text contains the airline as given,
\* and no submission channel was attempted
C11_UnsupportedAirline ==
    (submission.pc # "none" /\ toLowerCase(submission.airline) # Delta)
    => /\ submission.pc = "done"
       /\ ~submission.result.success
       /\ submission.result.error # None
       /\ Occurs(submission.airline, submission.result.error[1])
       /\ submission.attempts = <<>>
       /\ ~submission.simulated

\* C11 witness: a call for the airline "united" has returned
C11_Witness ==
    /\ submission.pc = "done"
    /\ submission.airline = <<"u", "n", "i", "t", "e", "d">>
    /\ submission.result.error # None

\* the requests a finished reconciliation pass handled
Handled == IF recon.pc = "done" THEN {recon.handled[k] : k \in 1..Len(recon.handled)} ELSE {}

C13_FailureRecorded ==
    \A i \in Handled :
        ( /\ submission.pc = "done"
          /\ submission.ecreditRequest.id = i
          /\ ~submission.result.success )
        => /\ ecreditRequests[i].status = "failed"
           /\ ecreditRequests[i].notes # None
           /\ submission.result.error # None
           /\ <<ecreditRequests[i].notes[1]>> = submission.result.error[1]

\* the iteration of pass record rec has a price that is not below the original
\* price of its flight
NotBelow(rec) ==
    /\ rec.pc \in {"append", "latest"}
    /\ rec.currentPrice[1] >= rec.flights[rec.idx].originalPrice

\* C14: in an iteration of the pass whose price is not below the flight's original
\* price, no step of the pass creates or changes a request, writes a notification
\* or changes a flight; the only write is the observation appended to the price
\* history, and the iteration ends without a drop and without calling
\* createEcreditRequest
C14_NoDropFrame ==
    [][\A p \in 1..NumPasses :
          (pass'[p] # pass[p] /\ (NotBelow(pass[p]) \/ NotBelow(pass'[p])))
          => /\ ecreditRequests' = ecreditRequests
             /\ notifications' = notifications
             /\ flights' = flights
             /\ \/ priceHistory' = priceHistory
                \/ /\ pass[p].pc = "append"
                   /\ priceHistory' = Append(priceHistory,
                          NewPriceRow(CurrentFlight(p).id, pass[p].currentPrice[1], clock))
             /\ pass'[p].pc \notin {"create", "notify"}
             /\ ~pass'[p].drop
             /\ pass'[p].ecreditRequest = None
             /\ pass'[p].priceDrops = pass[p].priceDrops]_vars

\* C14 witness: the pass finished an iteration with the price 510 for a flight
\* that has a request, after appending the observation
C14_Witness ==
    \E p \in 1..NumPasses :
        /\ Finished(p)
        /\ pass[p].currentPrice = Some(510)
        /\ \E i \in 1..Len(ecreditRequests) :
               ecreditRequests[i].flightId = FinishedFlight(p).id
        /\ \E k \in 1..Len(priceHistory) :
               priceHistory[k] = NewPriceRow(FinishedFlight(p).id, 510, clock)

\* C15: when every one of the overlapping passes has finished its iteration for a
\* flight with a price below the flight's original price, the flight has at most
\* one pending or in_progress request
C15_OverlapAtMostOne ==
    \A f \in 1..Len(flights) :
        (\A p \in 1..Overlap :
            /\ pass[p].pc \in {"fetch", "done"}
            /\ pass[p].idx >= 2
            /\ pass[p].flights[pass[p].idx - 1].id = f
            /\ pass[p].currentPrice # None
            /\ pass[p].currentPrice[1] < flights[f].originalPrice)
        => Cardinality(UnresolvedOf(ecreditRequests, f)) <= 1

\* C16: the steps of a pass leave every failed request as it is, and when a pass
\* ends its iteration for a flight that has a failed request with a price below
\* the flight's original price, it has stored a new pending request for the flight
C16_FailedDoesNotBlock ==
    [][\A p \in 1..NumPasses :
          (pass'[p] # pass[p] /\ pass[p].pc \notin {"idle", "done"})
          => /\ \A i \in 1..Len(ecreditRequests) :
                    ecreditRequests[i].status = "failed"
                    => ecreditRequests'[i] = ecreditRequests[i]
             /\ ( /\ pass'[p].idx = pass[p].idx + 1
                  /\ pass'[p].currentPrice # None
                  /\ pass'[p].currentPrice[1] < CurrentFlight(p).originalPrice
                  /\ \E i \in 1..Len(ecreditRequests) :
                         /\ ecreditRequests[i].flightId = CurrentFlight(p).id
                         /\ ecreditRequests[i].status = "failed" )
                => /\ pass'[p].ecreditRequest # None
                   /\ pass'[p].ecreditRequest[1].status = "pending"
                   /\ pass'[p].ecreditRequest[1].flightId = CurrentFlight(p).id
                   /\ pass'[p].ecreditRequest[1].id \in 1..Len(ecreditRequests')
                   /\ \A i \in 1..Len(ecreditRequests) :
                          ecreditRequests[i].status = "failed"
                          => pass'[p].ecreditRequest[1].id # i]_vars

C18_LedgerRoundTrip ==
    [][(reads' # reads /\ reads'.ok)
       => LET sel == RowsOf(priceHistory, reads'.flightId)
          IN  /\ reads'.op = "history"
                 => /\ Len(reads'.history) = Len(sel)
                    /\ \A k \in 1..Len(sel) :
                          Cardinality({j \in 1..Len(sel) : sel[j] = sel[k]}) =
                          Cardinality({j \in 1..Len(sel) : reads'.history[j] = sel[k]})
                    /\ \A a, b \in 1..Len(sel) :
                          a < b => reads'.history[a].timestamp <= reads'.history[b].timestamp
              /\ (reads'.op = "latest" /\ Len(sel) > 0)
                 => reads'.latest = Some(sel[Len(sel)].price)]_vars

\* C19: every stored flight has at least one price observation, and the oldest
\* one (the first inserted) has the price the flight was created with
C19_FirstObservation ==
    \A f \in 1..Len(flights) :
        /\ Len(RowsOf(priceHistory, f)) >= 1
        /\ RowsOf(priceHistory, f)[1].price = flights[f].originalPrice

\* C20: when createFlight has returned after its flight insert succeeded and its
\* insert of the first price observation failed, it returned the flight, and the
\* flight is stored
C20_FlightReportedCreated ==
    (flightCall.pc = "returned" /\ flightCall.flight # None /\ flightCall.historyFailed)
    => /\ flightCall.ret = flightCall.flight
       /\ flightCall.flight[1].id \in 1..Len(flights)
       /\ flights[flightCall.flight[1].id].userId = flightCall.flight[1].userId

\* a price member that carries no price at all: absent, or a string without a digit
NoPriceIn(v) ==
    \/ v.type = "missing"
    \/ v.type = "string" /\ \A i \in 1..Len(v.str) : ~IsDigit(v.str[i])

\* a price member that is a positive amount: a number, or a numeral string
PriceIn(v) ==
    \/ v.type = "number" /\ v.num > 0
    \/ /\ v.type = "string" /\ v.str # <<>>
       /\ \A i \in 1..Len(v.str) : IsDigit(v.str[i])
       /\ DigitsToNumber(v.str) > 0

AmountOf(v) == IF v.type = "number" THEN v.num ELSE DigitsToNumber(v.str)

\* the primary source yields a price: a received, successful body with a price
PrimaryYields(response) ==
    /\ ~response.thrown /\ response.body # None
    /\ response.body[1].success /\ response.body[1].data # None
    /\ PriceIn(response.body[1].data[1].price)

\* the primary source fails: exception or timeout, no body, non-success response,
\* or a payload without a usable price member
PrimaryFails(response) ==
    \/ response.thrown
    \/ response.body = None
    \/ ~response.body[1].success
    \/ response.body[1].data = None
    \/ NoPriceIn(response.body[1].data[1].price)

\* the backup source fails: exception or timeout, the flight is not among the
\* results, or its price member carries no price
BackupFails(response) ==
    \/ response.thrown
    \/ TargetFlight(response, FlightDetails) = None
    \/ NoPriceIn(TargetFlight(response, FlightDetails)[1].price)

\* C21: getFlightPrice consults the primary source first and returns its price
\* without consulting the secondary; when the primary fails in any way (timeout,
\* non-success response, malformed payload, exception) the secondary is consulted;
\* when both fail the call returns null.
C21_PrimaryThenBackup ==
    fare.pc = "done" =>
        /\ Len(fare.consulted) >= 1 /\ fare.consulted[1] = "primary"
        /\ PrimaryYields(fare.primary[1]) =>
               /\ fare.consulted = <<"primary">>
               /\ fare.ret = Number(AmountOf(fare.primary[1].body[1].data[1].price))
        /\ PrimaryFails(fare.primary[1]) =>
               /\ fare.consulted = <<"primary", "backup">>
               /\ BackupFails(fare.backup[1]) => fare.ret = Null

\* C22: an exception raised while one flight is processed is confined to that
\* flight: the pass goes on with the flights after it, visits every flight of its
\* list and ends in its summary, never in the error response.
C22_ExceptionConfined ==
    \A p \in 1..NumPasses :
        /\ pass[p].pc # "error"
        /\ \A i \in 1..Len(pass[p].threwAt) :
               \/ pass[p].idx > pass[p].threwAt[i]
               \/ pass[p].pc = "done"
        /\ pass[p].pc = "done" /\ Len(pass[p].flights) > 0 =>
               pass[p].idx = Len(pass[p].flights) + 1

\* the first of two flights threw, the second was observed and the pass returned
C22_Witness ==
    \E p \in 1..NumPasses :
        /\ pass[p].pc = "done" /\ Len(pass[p].flights) = 2
        /\ pass[p].threwAt = <<1>>
        /\ pass[p].checkedFlights >= 1
        /\ \E i \in 1..Len(priceHistory) :
               priceHistory[i].flightId = pass[p].flights[2].id

\* C23: when a pass has appended the observation and the creation of the request
\* fails, the step removes nothing from the ledger or the requests; and when a
\* later pass ends its iteration for such a flight with a price below the flight's
\* original price (and no store error of its own), it has created the request.
C23_RecoveredNextPass ==
    [][\A p \in 1..NumPasses :
          (pass'[p] # pass[p] /\ pass[p].pc \notin {"idle", "done"})
          => /\ (pass[p].pc = "create" /\ pass'[p].ecreditRequest = None)
                => /\ priceHistory' = priceHistory
                   /\ ecreditRequests' = ecreditRequests
             /\ ( /\ pass'[p].idx = pass[p].idx + 1
                  /\ CurrentFlight(p).id \in pass[p].owed
                  /\ pass'[p].currentPrice # None
                  /\ pass'[p].currentPrice[1] < CurrentFlight(p).originalPrice
                  /\ ~pass'[p].storeError )
                => /\ pass'[p].ecreditRequest # None
                   /\ pass'[p].ecreditRequest[1].id \in 1..Len(ecreditRequests')
                   /\ ecreditRequests'[pass'[p].ecreditRequest[1].id].flightId
                          = CurrentFlight(p).id]_vars

\* C24: when the notification step of a pass leaves no notification written, the
\* request just created for the flight is still stored and pending, and the pass
\* goes on to the next flight or to its summary.
C24_NotificationFailure ==
    [][\A p \in 1..NumPasses :
          (pass[p].pc = "notify" /\ pass'[p] # pass[p] /\ notifications' = notifications)
          => /\ pass[p].ecreditRequest[1].id \in 1..Len(ecreditRequests')
             /\ ecreditRequests'[pass[p].ecreditRequest[1].id].status = "pending"
             /\ ecreditRequests'[pass[p].ecreditRequest[1].id].flightId
                    = CurrentFlight(p).id
             /\ pass'[p].idx = pass[p].idx + 1
             /\ pass'[p].pc = IF pass[p].idx < Len(pass[p].flights) THEN "fetch" ELSE "done"
             /\ pass'[p].checkedFlights = pass[p].checkedFlights
             /\ pass'[p].priceDrops = pass[p].priceDrops]_vars

\* the notification of the first of two flights failed without an exception, its
\* request is pending, and the pass checked the second flight and returned
C24_Witness ==
    \E p \in 1..NumPasses :
        /\ pass[p].pc = "done" /\ Len(pass[p].flights) = 2
        /\ pass[p].threwAt = <<>>
        /\ pass[p].checkedFlights = 2
        /\ \E i \in 1..Len(ecreditRequests) :
               /\ ecreditRequests[i].flightId = pass[p].flights[1].id
               /\ ecreditRequests[i].status = "pending"
        /\ \A i \in 1..Len(notifications) :
               notifications[i].flightId # pass[p].flights[1].id

\* C25: no step changes the originalPrice, newPrice or priceDifference of a stored
\* request: not a price observation of a pass, not an updateFlight that changes
\* the flight's original price, not a status update.
C25_RequestPricesFixed ==
    [][\A i \in 1..Len(ecreditRequests) :
          /\ i <= Len(ecreditRequests')
          /\ ecreditRequests'[i].originalPrice = ecreditRequests[i].originalPrice
          /\ ecreditRequests'[i].newPrice = ecreditRequests[i].newPrice
          /\ ecreditRequests'[i].priceDifference = ecreditRequests[i].priceDifference]_vars

\* a request measured against 500 whose flight now has another original price and
\* a later observation in the ledger
C25_Witness ==
    \E i \in 1..Len(ecreditRequests) :
        /\ ecreditRequests[i].originalPrice = 500
        /\ ecreditRequests[i].newPrice = 420
        /\ ecreditRequests[i].priceDifference = 80
        /\ flights[ecreditRequests[i].flightId].originalPrice = 600
        /\ \E j \in 1..Len(priceHistory) :
               /\ priceHistory[j].flightId = ecreditRequests[i].flightId
               /\ priceHistory[j].price = 600

\* the ids of the flights a pass listed when it started
Listed(p) == {pass[p].flights[i].id : i \in 1..Len(pass[p].flights)}

C27_SummaryCounts ==
    \A p \in 1..NumPasses :
        pass[p].pc = "done" =>
            /\ pass[p].checkedFlights = Len(pass[p].flights)
            /\ pass[p].priceDrops = pass[p].below
            /\ Len(pass[p].flights) = 0 =>
                   pass[p].checkedFlights = 0 /\ pass[p].priceDrops = 0

\* C28: whenever a submission channel (api or web) is attempted for a stored
\* request, the stored status of that request is in_progress at that moment.
C28_InProgressBeforeAttempt ==
    [][( /\ Len(submission'.attempts) > Len(submission.attempts)
         /\ submission.ecreditRequest.id \in 1..Len(ecreditRequests) )
       => ecreditRequests[submission.ecreditRequest.id].status = "in_progress"]_vars

\* the step of pass p ends the iteration for its current flight
EndsIteration(p) ==
    /\ pass[p].pc \notin {"idle", "done"}
    /\ pass'[p].idx = pass[p].idx + 1

\* the step writes exactly one notification, a price drop for the current flight
\* of pass p and its owner
WritesNotification(p) ==
    /\ Len(notifications') = Len(notifications) + 1
    /\ SubSeq(notifications', 1, Len(notifications)) = notifications
    /\ notifications'[Len(notifications')].type = "price_drop"
    /\ notifications'[Len(notifications')].userId = CurrentFlight(p).userId
    /\ notifications'[Len(notifications')].flightId = CurrentFlight(p).id

\* a pass writes a notification only in the step that ends the iteration of a
\* flight for which createEcreditRequest returned a request, and its flights are
\* distinct: at most one notification per flight per pass
OnlyForReturnedRequest(p) ==
    /\ \A i, j \in 1..Len(pass[p].flights) :
           pass[p].flights[i].id = pass[p].flights[j].id => i = j
    /\ (pass'[p] # pass[p] /\ notifications' # notifications)
       => /\ EndsIteration(p)
          /\ pass'[p].ecreditRequest # None
          /\ WritesNotification(p)
    /\ (EndsIteration(p) /\ pass'[p].ecreditRequest = None)
       => notifications' = notifications

\* C29 as stated: the iteration for a flight writes a notification exactly when
\* createEcreditRequest returned a request for it, and at most one.
C29_NotifiedIffRequest ==
    [][\A p \in 1..NumPasses :
          /\ OnlyForReturnedRequest(p)
          /\ (EndsIteration(p) /\ pass'[p].ecreditRequest # None)
             => WritesNotification(p)]_vars

\* C29, amended: a notification is written only for a flight for which
\* createEcreditRequest returned a request, at most one per flight per pass; when
\* a request was returned the notification is written unless its insert fails,
\* in which case none is written.
C29_NotifiedUnlessInsertFails ==
    [][\A p \in 1..NumPasses :
          /\ OnlyForReturnedRequest(p)
          /\ (EndsIteration(p) /\ pass'[p].ecreditRequest # None)
             => IF pass'[p].notifyError
                THEN notifications' = notifications
                ELSE WritesNotification(p)]_vars

\* a pass that returned after a flight with a request and its notification, and
\* after a flight whose request was returned and whose notification insert failed
C29_Witness ==
    /\ pass[1].pc = "done" /\ Len(pass[1].flights) = 2
    /\ pass[1].notifyError
    /\ Len(ecreditRequests) = 2
    /\ Len(notifications) = 1
    /\ notifications[1].flightId = ecreditRequests[1].flightId

\* the row has a completion date
HasCompletionDate(row) ==
    row.completionDate # None /\ row.completionDate[1] # EmptyDate

\* C30: every stored request that is completed has a completion date; a status
\* update that writes completed records the supplied date or else the current
\* time, whichever other fields were supplied; and no status update removes a
\* completion date.
C30_CompletedHasDate ==
    /\ [](\A i \in 1..Len(ecreditRequests) :
            ecreditRequests[i].status = "completed"
            => HasCompletionDate(ecreditRequests[i]))
    /\ [][\A i \in 1..Len(ecreditRequests) :
            /\ (ecreditRequests'[i] # ecreditRequests[i]
                /\ ecreditRequests'[i].status = "completed")
               => ecreditRequests'[i].completionDate \in {Some(SuppliedDate), Some(clock)}
            /\ HasCompletionDate(ecreditRequests[i])
               => HasCompletionDate(ecreditRequests'[i])]_vars

\* a completed request that was updated without a usable completionDate at time 1 and
\* carries the time of the update
C30_Witness ==
    /\ updates = 1
    /\ clock = 1
    /\ ecreditRequests[1].status = "completed"
    /\ ecreditRequests[1].completionDate = Some(1)
    /\ ecreditRequests[1].ecreditCode # None

====
